---- MODULE Spec2Model ----
(***************************************************************************)
(* Model of the model-registry client and its promotion controller         *)
(* (model_pipeline/src/mlflow_utils/model_registry.py).                    *)
(*                                                                         *)
(* The registry (registered models, model versions, aliases) and the       *)
(* tracking store's evaluation runs are the remote state.  promote_model   *)
(* is a sequence of remote calls; each call is one step of an invocation,  *)
(* and each call may fail with a transport error.                          *)
(***************************************************************************)
EXTENDS Integers, Sequences, FiniteSets, TLC

VARIABLES
    registered,   \* names of the registered models
    versions,     \* model name -> set of ModelVersion records
    alias,        \* model name -> alias name -> version number (NoVersion: absent)
    runs,         \* rows of mlflow.search_runs, in the order the store returns them
    inv,          \* invocation -> promote_model's arguments, locals and position
    pre,          \* invocation -> registry state when the call was made
    last,         \* the last completed promote_model call, while nothing else has run
    query,        \* argument of a direct retrieve_eval_metrics_based_on_run_id call
    resolved,     \* its outcome
    reg,          \* invocation -> register_model's arguments, locals and position
    tags          \* the version tags, as <<model name, version number, key>>

vars == <<registered, versions, alias, runs, inv, pre, last, query, resolved, reg, tags>>

---------------------------------------------------------------------------
(* Bounds of the model *)

MaxVersion  == 2    \* versions register_model creates per model
MaxFailures == 1    \* transport errors injected into one promote_model call
MaxVerNum   == 10   \* largest version number of a drawn registry
MaxRuns     == 2    \* rows of a drawn run table
MaxTime     == 2    \* end_time values of a drawn run table

---------------------------------------------------------------------------
(* Names *)

Models     == {"churn", "fraud"}
Procs      == {"p1", "p2"}
Aliases    == {"staging", "champion"}
Stages     == {"None", "Production", "Archived"}
Statuses   == {"FINISHED", "RUNNING", "FAILED"}
MetricName == "f1_score"
NoVersion  == 0      \* an alias that is not assigned
NoRun      == ""     \* ModelVersion.run_id is None
NoArg      == <<>>   \* promote_model's version argument is None

(* Model URIs handed to register_model, as their "/"-separated segments *)
RunUri(r) == <<"runs:", r, "model">>
S3Uri     == <<"s3:", "", "bucket", "model">>
Uris      == {RunUri("r0"), RunUri("r1"), RunUri("r2"), RunUri("r3"), S3Uri}

---------------------------------------------------------------------------
(* Version numbers travel as decimal strings (ModelVersion.version) *)

RECURSIVE VersionStr(_)
VersionStr(n) ==
    IF n < 10 THEN <<n>> ELSE Append(VersionStr(n \div 10), n % 10)

RECURSIVE int(_)
int(s) ==
    IF s = <<>> THEN 0 ELSE int(SubSeq(s, 1, Len(s) - 1)) * 10 + s[Len(s)]

(* Python's order on strings: the first differing character decides, a     *)
(* proper prefix is smaller                                                *)
RECURSIVE StrLess(_, _)
StrLess(a, b) ==
    IF b = <<>> THEN FALSE
    ELSE IF a = <<>> THEN TRUE
    ELSE IF a[1] # b[1] THEN a[1] < b[1]
    ELSE StrLess(Tail(a), Tail(b))

(* Variant: max(versions, key=lambda v: v.version) *)
KeyByString(a, b) == StrLess(a, b) \/ a = b

(* key=lambda v: int(v.version): a is not larger than b *)
KeyByInt(a, b) == int(a) <= int(b)

(* max(versions, key=...) over the returned ModelVersions *)
MaxVersionOf(vs) ==
    CHOOSE v \in vs : \A w \in vs : KeyByInt(VersionStr(w.version), VersionStr(v.version))

---------------------------------------------------------------------------
(* The registry service behind MlflowClient *)

ModelVersion(n, uri, r, st) ==
    [version |-> n, source |-> uri, run_id |-> r, current_stage |-> st]

(* delete_model_version leaves the version behind in this stage: its      *)
(* number is not given out again                                           *)
Deleted == "Deleted_Internal"

Live(vs) == {v \in vs : v.current_stage # Deleted}

VersionNumbers(m) == {v.version : v \in versions[m]}

Exists(m, n) == m \in registered /\ n \in {v.version : v \in Live(versions[m])}

TheVersion(m, n) == CHOOSE v \in versions[m] : v.version = n

Maximum(S) == IF S = {} THEN 0 ELSE CHOOSE x \in S : \A y \in S : y <= x

(* client.get_latest_versions(name, stages=None): the newest version of    *)
(* every stage                                                             *)
get_latest_versions(m) ==
    {v \in Live(versions[m]) :
        \A w \in Live(versions[m]) :
            w.current_stage = v.current_stage => w.version <= v.version}

(* model_uri.split("/")[1] if "runs:" in model_uri else None *)
RunIdOf(uri) ==
    IF \E i \in 1..Len(uri) : uri[i] = "runs:" THEN uri[2] ELSE NoRun

---------------------------------------------------------------------------
(* Metric resolver: retrieve_eval_metrics_based_on_run_id *)

EvalRun(src, st, t, ms) ==
    [source_run_id |-> src, status |-> st, end_time |-> t, metrics |-> ms]

NoMetrics    == [n \in {} |-> 0]
Metrics(x)   == [n \in {MetricName} |-> x]

(* f"{run_id}" *)
Fmt(r) == IF r = NoRun THEN "None" ELSE r

(* search_runs yields the column tags.source_run_id only when a run has the tag *)
HasTagColumn(table) == \E i \in 1..Len(table) : table[i].source_run_id # ""

(* Variant: the filter on status is missing *)
EligibleAnyStatus(table, r) ==
    {i \in 1..Len(table) : table[i].source_run_id = Fmt(r)}

(* the rows kept by the filter on tags.source_run_id and status *)
Eligible(table, r) ==
    {i \in 1..Len(table) :
        /\ table[i].source_run_id = Fmt(r)
        /\ table[i].status = "FINISHED"}

(* sort_values(by="end_time", ascending=False).head(1): a row of the        *)
(* largest end_time; the sort does not order rows of equal end_time         *)
LatestEval(table, rows) ==
    {i \in rows : \A j \in rows : table[j].end_time <= table[i].end_time}

Outcome(k, x, i) == [kind |-> k, value |-> x, row |-> i]

(* Variant: the latest FINISHED run that has the metric *)
RetrieveWithFallback(table, r, metric) ==
    LET having == {i \in Eligible(table, r) : metric \in DOMAIN table[i].metrics} IN
    IF ~HasTagColumn(table) THEN {Outcome("KeyError", 0, 0)}
    ELSE IF Eligible(table, r) = {} THEN {Outcome("IndexError", 0, 0)}
    ELSE IF having = {} THEN {Outcome("KeyError", 0, 0)}
    ELSE {Outcome("ok", table[i].metrics[metric], i) : i \in LatestEval(table, having)}

(* The outcomes the call can have: a value, or the exception it raises *)
retrieve_eval_metrics_based_on_run_id(table, r, metric) ==
    IF ~HasTagColumn(table) THEN {Outcome("KeyError", 0, 0)}
    ELSE IF Eligible(table, r) = {} THEN {Outcome("IndexError", 0, 0)}
    ELSE {IF metric \in DOMAIN table[i].metrics
             THEN Outcome("ok", table[i].metrics[metric], i)
             ELSE Outcome("KeyError", 0, i)
          : i \in LatestEval(table, Eligible(table, r))}

---------------------------------------------------------------------------
(* promote_model's invocation record *)

Args(m, v, f, t, ri) ==
    [model_name |-> m, version |-> v, from_alias |-> f, to_alias |-> t,
     require_improvement |-> ri]

NoArgs == Args("churn", NoArg, "staging", "champion", TRUE)

(* promote_model's invocation record: the arguments, the locals, what the   *)
(* caller gets and the exit taken, the transport failures met (fails) and   *)
(* the number the registry may answer with in this call (budget), and       *)
(* whether the call's assignment of to_alias is the last one made           *)
Idle ==
    [pc |-> "idle", args |-> NoArgs, version |-> NoArg,
     candidate_run |-> NoRun, existing |-> NoVersion, existing_run |-> NoRun,
     candidate_metric |-> 0, existing_metric |-> 0,
     reported |-> <<>>, ret |-> "none", exit |-> "none",
     fails |-> 0, metric_calls |-> 0, alias_writes |-> 0, repeat |-> FALSE,
     wrote_last |-> FALSE, budget |-> 0]

NoPre ==
    [registered |-> {}, versions |-> [m \in Models |-> {}],
     alias |-> [m \in Models |-> [a \in Aliases |-> NoVersion]]]
NoLast == [valid |-> FALSE, args |-> NoArgs]

Snapshot == [registered |-> registered, versions |-> versions, alias |-> alias]

(* Evaluation runs of the tracking store in the promotion scenarios:       *)
(* r0 scores 0, r1 0.80 (a later FAILED run scores more), r2 0.83 (an      *)
(* older run scored 0.78), r3's latest run has no f1_score                 *)
EvalFixture ==
    << EvalRun("r0", "FINISHED", 1, Metrics(0)),
       EvalRun("r1", "FINISHED", 1, Metrics(80)),
       EvalRun("r1", "FAILED",   2, Metrics(83)),
       EvalRun("r2", "FINISHED", 1, Metrics(78)),
       EvalRun("r2", "FINISHED", 2, Metrics(83)),
       EvalRun("r3", "FINISHED", 1, Metrics(83)),
       EvalRun("r3", "FINISHED", 2, NoMetrics) >>

(* register_model's invocation record: the arguments (tags as the keys in  *)
(* the dict's order), model_version.version, the tag the loop is at, what   *)
(* the caller gets, and the transport failures met and still possible       *)
RegIdle ==
    [pc |-> "idle", model_name |-> "churn", model_uri |-> S3Uri, tags |-> <<>>,
     version |-> NoVersion, next_tag |-> 1, ret |-> "none", exit |-> "none",
     fails |-> 0, budget |-> 0]

Init ==
    /\ registered = {}
    /\ versions = [m \in Models |-> {}]
    /\ alias = [m \in Models |-> [a \in Aliases |-> NoVersion]]
    /\ runs = EvalFixture
    /\ inv = [p \in Procs |-> Idle]
    /\ pre = [p \in Procs |-> NoPre]
    /\ last = NoLast
    /\ query = NoRun
    /\ resolved = Outcome("none", 0, 0)
    /\ reg = [p \in Procs |-> RegIdle]
    /\ tags = {}

AllIdle == \A p \in Procs : inv[p].pc = "idle"

---------------------------------------------------------------------------
(* Registry operations of the client *)

(* register_model: get-or-create the model, then create the next version *)
register_model(m, uri) ==
    /\ Cardinality(versions[m]) < MaxVersion
    /\ registered' = registered \cup {m}
    /\ versions' = [versions EXCEPT ![m] =
            @ \cup {ModelVersion(Maximum(VersionNumbers(m)) + 1, uri, RunIdOf(uri), "None")}]
    /\ last' = NoLast
    /\ UNCHANGED <<alias, runs, inv, pre, query, resolved, reg, tags>>

(* create_registered_model: an existing model makes the call raise, and the *)
(* exception is logged                                                      *)
create_registered_model(m) ==
    /\ registered' = registered \cup {m}
    /\ last' = NoLast
    /\ UNCHANGED <<versions, alias, runs, inv, pre, query, resolved, reg, tags>>

(* set_model_version_alias: the registry refuses a version that does not exist *)
set_model_version_alias(m, n, a) ==
    /\ Exists(m, n)
    /\ alias' = [alias EXCEPT ![m][a] = n]
    /\ last' = NoLast
    /\ UNCHANGED <<registered, versions, runs, inv, pre, query, resolved, reg, tags>>

(* delete_model_version_alias: deleting an absent alias succeeds *)
delete_model_version_alias(m, a) ==
    /\ m \in registered
    /\ alias' = [alias EXCEPT ![m][a] = NoVersion]
    /\ last' = NoLast
    /\ UNCHANGED <<registered, versions, runs, inv, pre, query, resolved, reg, tags>>

(* Variant: the aliases of the deleted version stay *)
DeleteVersionKeepAliases(m, n) ==
    /\ Exists(m, n)
    /\ versions' = [versions EXCEPT ![m] =
            {IF v.version = n THEN [v EXCEPT !.current_stage = Deleted] ELSE v : v \in @}]
    /\ last' = NoLast
    /\ UNCHANGED <<registered, alias, runs, inv, pre, query, resolved, reg, tags>>

(* delete_model_version: the registry marks the version deleted, so that    *)
(* its number is not given out again, and deletes the aliases it holds      *)
delete_model_version(m, n) ==
    /\ Exists(m, n)
    /\ versions' = [versions EXCEPT ![m] =
            {IF v.version = n THEN [v EXCEPT !.current_stage = Deleted] ELSE v : v \in @}]
    /\ alias' = [alias EXCEPT ![m] =
            [a \in Aliases |-> IF @[a] = n THEN NoVersion ELSE @[a]]]
    /\ last' = NoLast
    /\ UNCHANGED <<registered, runs, inv, pre, query, resolved, reg, tags>>

---------------------------------------------------------------------------
(* promote_model, one remote call a step *)

Goto(i, l)      == [i EXCEPT !.pc = l]
Returns(i, r, l) == [i EXCEPT !.pc = "done", !.ret = r, !.exit = l]
Raises(i, l)    == Returns(i, "raised", l)
CanFail(i)      == i.fails < i.budget
Failed(i)       == [i EXCEPT !.fails = @ + 1]

(* Variant: the comparison is the wrong way round *)
RegressionReversed(c, e) == e <= c

(* Variant: an equal metric is let through *)
RegressionStrict(c, e) == c < e

(* if candidate_metric <= existing_metric: promotion blocked *)
Regression(c, e) == c <= e

(* improvement / existing_metric * 100, as {:+.2f} prints it, in hundredths *)
ImprovementPct(c, e) == (((c - e) * 100000) \div e + 5) \div 10

(* The caller invokes promote_model *)
Call(p, m, v, f, t, ri) ==
    /\ inv[p].pc = "idle"
    /\ LET a == Args(m, v, f, t, ri) IN
       inv' = [inv EXCEPT ![p] =
                 [Idle EXCEPT !.pc = "L313", !.args = a, !.version = v,
                              !.budget = MaxFailures,
                              !.repeat = (last.valid /\ last.args = a)]]
    /\ pre' = [pre EXCEPT ![p] = Snapshot]
    /\ last' = NoLast
    /\ UNCHANGED <<registered, versions, alias, runs, query, resolved, reg, tags>>

(* Variant: no check for an empty list, max() raises ValueError *)
ResolveVersionNoCheck(p) ==
    LET i == inv[p]
        m == i.args.model_name
    IN
    /\ i.pc = "L313"
    /\ \/ /\ i.version # NoArg
          /\ inv' = [inv EXCEPT ![p] = Goto(i, "L329")]
       \/ /\ i.version = NoArg
          /\ m \in registered
          /\ get_latest_versions(m) = {}
          /\ inv' = [inv EXCEPT ![p] = Raises(i, "L320")]
       \/ /\ i.version = NoArg
          /\ m \in registered
          /\ get_latest_versions(m) # {}
          /\ inv' = [inv EXCEPT ![p] =
                [Goto(i, "L329") EXCEPT
                    !.version = VersionStr(MaxVersionOf(get_latest_versions(m)).version)]]
       \/ /\ i.version = NoArg
          /\ m \notin registered \/ CanFail(i)
          /\ inv' = [inv EXCEPT ![p] =
                Raises(IF m \in registered THEN Failed(i) ELSE i, "L315")]
    /\ UNCHANGED <<registered, versions, alias, runs, pre, last, query, resolved, reg, tags>>

(* if version is None: the latest version, by number *)
ResolveVersion(p) ==
    LET i == inv[p]
        m == i.args.model_name
    IN
    /\ i.pc = "L313"
    /\ \/ /\ i.version # NoArg
          /\ inv' = [inv EXCEPT ![p] = Goto(i, "L329")]
       \/ /\ i.version = NoArg
          /\ m \in registered
          /\ get_latest_versions(m) = {}
          /\ inv' = [inv EXCEPT ![p] = Returns(i, "False", "L318")]
       \/ /\ i.version = NoArg
          /\ m \in registered
          /\ get_latest_versions(m) # {}
          /\ inv' = [inv EXCEPT ![p] =
                [Goto(i, "L329") EXCEPT
                    !.version = VersionStr(MaxVersionOf(get_latest_versions(m)).version)]]
       \/ /\ i.version = NoArg
          /\ m \notin registered \/ CanFail(i)
          /\ inv' = [inv EXCEPT ![p] =
                Raises(IF m \in registered THEN Failed(i) ELSE i, "L315")]
    /\ UNCHANGED <<registered, versions, alias, runs, pre, last, query, resolved, reg, tags>>

(* Variant: a failed lookup of the candidate is passed over *)
GetCandidateIgnored(p) ==
    LET i == inv[p]
        m == i.args.model_name
        n == int(i.version)
    IN
    /\ i.pc = "L329"
    /\ \/ /\ Exists(m, n)
          /\ inv' = [inv EXCEPT ![p] =
                [Goto(i, "L335") EXCEPT !.candidate_run = TheVersion(m, n).run_id]]
       \/ /\ ~Exists(m, n) \/ CanFail(i)
          /\ inv' = [inv EXCEPT ![p] =
                Goto(IF Exists(m, n) THEN Failed(i) ELSE i, "L335")]
    /\ UNCHANGED <<registered, versions, alias, runs, pre, last, query, resolved, reg, tags>>

(* candidate_version = self.client.get_model_version(...), outside the try *)
GetCandidate(p) ==
    LET i == inv[p]
        m == i.args.model_name
        n == int(i.version)
    IN
    /\ i.pc = "L329"
    /\ \/ /\ Exists(m, n)
          /\ inv' = [inv EXCEPT ![p] =
                [Goto(i, "L335") EXCEPT !.candidate_run = TheVersion(m, n).run_id]]
       \/ /\ ~Exists(m, n) \/ CanFail(i)
          /\ inv' = [inv EXCEPT ![p] =
                Raises(IF Exists(m, n) THEN Failed(i) ELSE i, "L329")]
    /\ UNCHANGED <<registered, versions, alias, runs, pre, last, query, resolved, reg, tags>>

(* Variant: the lookup of to_alias is outside the try *)
GetExistingUncaught(p) ==
    LET i == inv[p]
        m == i.args.model_name
        n == alias[m][i.args.to_alias]
    IN
    /\ i.pc = "L335"
    /\ \/ /\ Exists(m, n)
          /\ inv' = [inv EXCEPT ![p] =
                [Goto(i, IF i.args.require_improvement THEN "L345" ELSE "L391")
                    EXCEPT !.existing = n, !.existing_run = TheVersion(m, n).run_id]]
       \/ /\ ~Exists(m, n) \/ CanFail(i)
          /\ inv' = [inv EXCEPT ![p] =
                Raises(IF Exists(m, n) THEN Failed(i) ELSE i, "L335")]
    /\ UNCHANGED <<registered, versions, alias, runs, pre, last, query, resolved, reg, tags>>

(* Variant: the metrics are compared whatever require_improvement is *)
GetExistingAlwaysGuarded(p) ==
    LET i == inv[p]
        m == i.args.model_name
        n == alias[m][i.args.to_alias]
    IN
    /\ i.pc = "L335"
    /\ \/ /\ Exists(m, n)
          /\ inv' = [inv EXCEPT ![p] =
                [Goto(i, "L345")
                    EXCEPT !.existing = n, !.existing_run = TheVersion(m, n).run_id]]
       \/ /\ ~Exists(m, n) \/ CanFail(i)
          /\ inv' = [inv EXCEPT ![p] =
                Goto(IF Exists(m, n) THEN Failed(i) ELSE i, "L410")]
    /\ UNCHANGED <<registered, versions, alias, runs, pre, last, query, resolved, reg, tags>>

(* existing = self.get_model_version_by_alias(...): any exception it raises *)
(* is caught by the except of line 405                                      *)
GetExisting(p) ==
    LET i == inv[p]
        m == i.args.model_name
        n == alias[m][i.args.to_alias]
    IN
    /\ i.pc = "L335"
    /\ \/ /\ Exists(m, n)
          /\ inv' = [inv EXCEPT ![p] =
                [Goto(i, IF i.args.require_improvement THEN "L345" ELSE "L391")
                    EXCEPT !.existing = n, !.existing_run = TheVersion(m, n).run_id]]
       \/ /\ ~Exists(m, n) \/ CanFail(i)
          /\ inv' = [inv EXCEPT ![p] =
                Goto(IF Exists(m, n) THEN Failed(i) ELSE i, "L410")]
    /\ UNCHANGED <<registered, versions, alias, runs, pre, last, query, resolved, reg, tags>>

(* candidate_metric = self.retrieve_eval_metrics_based_on_run_id(...) *)
CandidateMetric(p) ==
    LET i == [inv[p] EXCEPT !.metric_calls = @ + 1] IN
    /\ i.pc = "L345"
    /\ \/ \E o \in retrieve_eval_metrics_based_on_run_id(runs, i.candidate_run, MetricName) :
            inv' = [inv EXCEPT ![p] =
                IF o.kind = "ok"
                   THEN [Goto(i, "L349") EXCEPT !.candidate_metric = o.value]
                   ELSE Goto(i, "L410")]
       \/ /\ CanFail(i)
          /\ inv' = [inv EXCEPT ![p] = Goto(Failed(i), "L410")]
    /\ UNCHANGED <<registered, versions, alias, runs, pre, last, query, resolved, reg, tags>>

(* Variant: a holder without a metric blocks the promotion *)
ExistingMetricRequired(p) ==
    LET i == [inv[p] EXCEPT !.metric_calls = @ + 1]
        c == i.candidate_metric
    IN
    /\ i.pc = "L349"
    /\ \/ \E o \in retrieve_eval_metrics_based_on_run_id(runs, i.existing_run, MetricName) :
            inv' = [inv EXCEPT ![p] =
                IF o.kind # "ok" THEN Returns(i, "False", "L377")
                ELSE IF Regression(c, o.value)
                   THEN [Returns(i, "False", "L377") EXCEPT
                            !.existing_metric = o.value,
                            !.reported = <<c - o.value>>]
                ELSE IF o.value = 0
                   THEN [Goto(i, "L410") EXCEPT !.existing_metric = o.value]
                ELSE [Goto(i, "L391") EXCEPT
                            !.existing_metric = o.value,
                            !.reported = <<c - o.value, ImprovementPct(c, o.value)>>]]
       \/ /\ CanFail(i)
          /\ inv' = [inv EXCEPT ![p] = Goto(Failed(i), "L410")]
    /\ UNCHANGED <<registered, versions, alias, runs, pre, last, query, resolved, reg, tags>>

(* existing_metric = ..., then the comparison and the improvement report *)
ExistingMetric(p) ==
    LET i == [inv[p] EXCEPT !.metric_calls = @ + 1]
        c == i.candidate_metric
    IN
    /\ i.pc = "L349"
    /\ \/ \E o \in retrieve_eval_metrics_based_on_run_id(runs, i.existing_run, MetricName) :
            inv' = [inv EXCEPT ![p] =
                IF o.kind # "ok" THEN Goto(i, "L410")
                ELSE IF Regression(c, o.value)
                   THEN [Returns(i, "False", "L377") EXCEPT
                            !.existing_metric = o.value,
                            !.reported = <<c - o.value>>]
                ELSE IF o.value = 0
                   THEN [Goto(i, "L410") EXCEPT !.existing_metric = o.value]
                ELSE [Goto(i, "L391") EXCEPT
                            !.existing_metric = o.value,
                            !.reported = <<c - o.value, ImprovementPct(c, o.value)>>]]
       \/ /\ CanFail(i)
          /\ inv' = [inv EXCEPT ![p] = Goto(Failed(i), "L410")]
    /\ UNCHANGED <<registered, versions, alias, runs, pre, last, query, resolved, reg, tags>>

(* Variant: every alias of the model is deleted *)
ClearEveryAlias(p) ==
    LET i == [inv[p] EXCEPT !.alias_writes = @ + 1]
        m == i.args.model_name
    IN
    /\ i.pc = "L391"
    /\ \/ /\ alias' = [alias EXCEPT ![m] = [a \in Aliases |-> NoVersion]]
          /\ inv' = [inv EXCEPT ![p] = Goto(i, "L398")]
       \/ /\ CanFail(i)
          /\ inv' = [inv EXCEPT ![p] = Goto(Failed(i), "L410")]
          /\ UNCHANGED alias
    /\ UNCHANGED <<registered, versions, runs, pre, last, query, resolved, reg, tags>>

(* if existing: self.delete_model_version_alias(model_name, to_alias) *)
ClearToAlias(p) ==
    LET i == [inv[p] EXCEPT !.alias_writes = @ + 1]
        m == i.args.model_name
    IN
    /\ i.pc = "L391"
    /\ \/ /\ alias' = [alias EXCEPT ![m][i.args.to_alias] = NoVersion]
          /\ inv' = [inv EXCEPT ![p] = Goto(i, "L398")]
       \/ /\ CanFail(i)
          /\ inv' = [inv EXCEPT ![p] = Goto(Failed(i), "L410")]
          /\ UNCHANGED alias
    /\ UNCHANGED <<registered, versions, runs, pre, last, query, resolved, reg, tags>>

(* Variant: from_alias is deleted on every model *)
ClearFromAliasAllModels(p) ==
    LET i == [inv[p] EXCEPT !.alias_writes = @ + 1]
    IN
    /\ i.pc = "L398"
    /\ \/ /\ alias' = [m \in Models |->
                        [alias[m] EXCEPT ![i.args.from_alias] = NoVersion]]
          /\ inv' = [inv EXCEPT ![p] = Goto(i, "L410")]
       \/ /\ CanFail(i)
          /\ inv' = [inv EXCEPT ![p] = Goto(Failed(i), "L410")]
          /\ UNCHANGED alias
    /\ UNCHANGED <<registered, versions, runs, pre, last, query, resolved, reg, tags>>

(* the inner try: delete from_alias, an exception is logged *)
ClearFromAlias(p) ==
    LET i == [inv[p] EXCEPT !.alias_writes = @ + 1]
        m == i.args.model_name
    IN
    /\ i.pc = "L398"
    /\ \/ /\ alias' = [alias EXCEPT ![m][i.args.from_alias] = NoVersion]
          /\ inv' = [inv EXCEPT ![p] = Goto(i, "L410")]
       \/ /\ CanFail(i)
          /\ inv' = [inv EXCEPT ![p] = Goto(Failed(i), "L410")]
          /\ UNCHANGED alias
    /\ UNCHANGED <<registered, versions, runs, pre, last, query, resolved, reg, tags>>

(* Two invocations assign the same alias of the same model *)
SameTarget(i, j) ==
    i.args.model_name = j.args.model_name /\ i.args.to_alias = j.args.to_alias

(* Variant: an alias that has a holder keeps it *)
AssignAliasIfAbsent(p) ==
    LET i == [inv[p] EXCEPT !.alias_writes = @ + 1]
        m == i.args.model_name
        n == int(i.version)
    IN
    /\ i.pc = "L410"
    /\ \/ /\ Exists(m, n)
          /\ alias' = [alias EXCEPT ![m][i.args.to_alias] =
                            IF @ = NoVersion THEN n ELSE @]
          /\ inv' = [q \in Procs |->
                IF q = p THEN [Returns(i, "True", "L413") EXCEPT !.wrote_last = TRUE]
                ELSE IF SameTarget(inv[q], i) THEN [inv[q] EXCEPT !.wrote_last = FALSE]
                ELSE inv[q]]
       \/ /\ ~Exists(m, n) \/ CanFail(i)
          /\ inv' = [inv EXCEPT ![p] =
                Raises(IF Exists(m, n) THEN Failed(i) ELSE i, "L410")]
          /\ UNCHANGED alias
    /\ UNCHANGED <<registered, versions, runs, pre, last, query, resolved, reg, tags>>

(* self.set_model_version_alias(model_name, version, to_alias); return True; *)
(* wrote_last marks the invocation whose assignment of the alias was the     *)
(* last one                                                                  *)
AssignAlias(p) ==
    LET i == [inv[p] EXCEPT !.alias_writes = @ + 1]
        m == i.args.model_name
        n == int(i.version)
    IN
    /\ i.pc = "L410"
    /\ \/ /\ Exists(m, n)
          /\ alias' = [alias EXCEPT ![m][i.args.to_alias] = n]
          /\ inv' = [q \in Procs |->
                IF q = p THEN [Returns(i, "True", "L413") EXCEPT !.wrote_last = TRUE]
                ELSE IF SameTarget(inv[q], i) THEN [inv[q] EXCEPT !.wrote_last = FALSE]
                ELSE inv[q]]
       \/ /\ ~Exists(m, n) \/ CanFail(i)
          /\ inv' = [inv EXCEPT ![p] =
                Raises(IF Exists(m, n) THEN Failed(i) ELSE i, "L410")]
          /\ UNCHANGED alias
    /\ UNCHANGED <<registered, versions, runs, pre, last, query, resolved, reg, tags>>

(* The call is over: the caller has the result *)
Return(p) ==
    /\ inv[p].pc = "done"
    /\ last' = [valid |-> inv[p].fails = 0, args |-> inv[p].args]
    /\ inv' = [inv EXCEPT ![p] = Idle]
    /\ pre' = [pre EXCEPT ![p] = NoPre]
    /\ UNCHANGED <<registered, versions, alias, runs, query, resolved, reg, tags>>

promote_model(p) ==
    \/ ResolveVersion(p)
    \/ GetCandidate(p)
    \/ GetExisting(p)
    \/ CandidateMetric(p)
    \/ ExistingMetric(p)
    \/ ClearToAlias(p)
    \/ ClearFromAlias(p)
    \/ AssignAlias(p)
    \/ Return(p)

---------------------------------------------------------------------------
(* One caller at a time, on one model *)

VersionArgs == {NoArg} \cup {VersionStr(n) : n \in 1..(MaxVersion + 1)}

Next ==
    \/ \E uri \in Uris : AllIdle /\ register_model("churn", uri)
    \/ AllIdle /\ create_registered_model("churn")
    \/ \E n \in 1..MaxVersion, a \in Aliases :
            AllIdle /\ set_model_version_alias("churn", n, a)
    \/ \E a \in Aliases : AllIdle /\ delete_model_version_alias("churn", a)
    \/ \E v \in VersionArgs, ri \in BOOLEAN :
            AllIdle /\ Call("p1", "churn", v, "staging", "champion", ri)
    \/ promote_model("p1")

Spec == Init /\ [][Next]_vars

---------------------------------------------------------------------------
(* register_model, one remote call a step, two callers at once *)

TagLists == {<<>>, <<"framework", "owner">>}

RegisterUris == {RunUri("r1"), S3Uri}

InFlight(m) ==
    {p \in Procs : reg[p].model_name = m /\ reg[p].pc \in {"L58", "L62", "L67"}}

RegIdleAll == \A p \in Procs : reg[p].pc = "idle"

(* The caller invokes register_model *)
RegisterCall(p, m, uri, ts) ==
    /\ reg[p].pc = "idle"
    /\ Cardinality(versions[m]) + Cardinality(InFlight(m)) < MaxVersion
    /\ reg' = [reg EXCEPT ![p] =
            [RegIdle EXCEPT !.pc = "L58", !.model_name = m, !.model_uri = uri,
                            !.tags = ts, !.budget = MaxFailures]]
    /\ UNCHANGED <<registered, versions, alias, runs, inv, pre, last, query, resolved, tags>>

(* try: self.client.get_registered_model(model_name); except Exception *)
RegGetModel(p) ==
    LET i == reg[p]
        m == i.model_name
    IN
    /\ i.pc = "L58"
    /\ \/ /\ m \in registered
          /\ reg' = [reg EXCEPT ![p] = Goto(i, "L67")]
       \/ /\ m \notin registered \/ CanFail(i)
          /\ reg' = [reg EXCEPT ![p] =
                Goto(IF m \in registered THEN Failed(i) ELSE i, "L62")]
    /\ UNCHANGED <<registered, versions, alias, runs, inv, pre, last, query, resolved, tags>>

(* Variant: the creation goes through the method of lines 87-103, which    *)
(* logs the exception of a model that exists                                *)
RegCreateModelLogged(p) ==
    LET i == reg[p]
        m == i.model_name
    IN
    /\ i.pc = "L62"
    /\ registered' = registered \cup {m}
    /\ reg' = [reg EXCEPT ![p] = Goto(i, "L67")]
    /\ UNCHANGED <<versions, alias, runs, inv, pre, last, query, resolved, tags>>

(* self.client.create_registered_model(...) in the except: the registry    *)
(* raises for a model that exists, and nothing catches it                   *)
RegCreateModel(p) ==
    LET i == reg[p]
        m == i.model_name
    IN
    /\ i.pc = "L62"
    /\ \/ /\ m \notin registered
          /\ registered' = registered \cup {m}
          /\ reg' = [reg EXCEPT ![p] = Goto(i, "L67")]
       \/ /\ m \in registered \/ CanFail(i)
          /\ reg' = [reg EXCEPT ![p] =
                Raises(IF m \in registered THEN i ELSE Failed(i), "L62")]
          /\ UNCHANGED registered
    /\ UNCHANGED <<versions, alias, runs, inv, pre, last, query, resolved, tags>>

(* Variant: a version of the same source is given back, none is created *)
RegCreateVersionDedup(p) ==
    LET i == reg[p]
        m == i.model_name
        same == {v \in Live(versions[m]) : v.source = i.model_uri}
        n == IF same = {} THEN Maximum(VersionNumbers(m)) + 1
             ELSE Maximum({v.version : v \in same})
        j == [i EXCEPT !.version = n]
    IN
    /\ i.pc = "L67"
    /\ \/ /\ versions' = [versions EXCEPT ![m] =
                  @ \cup {ModelVersion(n, i.model_uri, RunIdOf(i.model_uri), "None")}]
          /\ reg' = [reg EXCEPT ![p] =
                IF i.tags = <<>> THEN Returns(j, "version", "L84") ELSE Goto(j, "L74")]
       \/ /\ CanFail(i)
          /\ reg' = [reg EXCEPT ![p] = Raises(Failed(i), "L67")]
          /\ UNCHANGED versions
    /\ UNCHANGED <<registered, alias, runs, inv, pre, last, query, resolved, tags>>

(* model_version = self.client.create_model_version(...): the registry     *)
(* gives the version the next number of the model; without tags the method  *)
(* returns it                                                               *)
RegCreateVersion(p) ==
    LET i == reg[p]
        m == i.model_name
        n == Maximum(VersionNumbers(m)) + 1
        j == [i EXCEPT !.version = n]
    IN
    /\ i.pc = "L67"
    /\ \/ /\ versions' = [versions EXCEPT ![m] =
                  @ \cup {ModelVersion(n, i.model_uri, RunIdOf(i.model_uri), "None")}]
          /\ reg' = [reg EXCEPT ![p] =
                IF i.tags = <<>> THEN Returns(j, "version", "L84") ELSE Goto(j, "L74")]
       \/ /\ CanFail(i)
          /\ reg' = [reg EXCEPT ![p] = Raises(Failed(i), "L67")]
          /\ UNCHANGED versions
    /\ UNCHANGED <<registered, alias, runs, inv, pre, last, query, resolved, tags>>

(* for key, val in tags.items(): self.client.set_model_version_tag(...);   *)
(* after the last tag the method returns model_version                      *)
RegSetTag(p) ==
    LET i == reg[p]
        j == [i EXCEPT !.next_tag = @ + 1]
    IN
    /\ i.pc = "L74"
    /\ \/ /\ tags' = tags \cup {<<i.model_name, i.version, i.tags[i.next_tag]>>}
          /\ reg' = [reg EXCEPT ![p] =
                IF i.next_tag = Len(i.tags) THEN Returns(j, "version", "L84") ELSE j]
       \/ /\ CanFail(i)
          /\ reg' = [reg EXCEPT ![p] = Raises(Failed(i), "L76")]
          /\ UNCHANGED tags
    /\ UNCHANGED <<registered, versions, alias, runs, inv, pre, last, query, resolved>>

(* The call is over: the caller has the version or the exception *)
RegReturn(p) ==
    /\ reg[p].pc = "done"
    /\ reg' = [reg EXCEPT ![p] = RegIdle]
    /\ UNCHANGED <<registered, versions, alias, runs, inv, pre, last, query, resolved, tags>>

register_steps(p) ==
    \/ RegGetModel(p)
    \/ RegCreateModel(p)
    \/ RegCreateVersion(p)
    \/ RegSetTag(p)
    \/ RegReturn(p)

NextRegister ==
    \/ \E p \in Procs, uri \in RegisterUris, ts \in TagLists :
            RegisterCall(p, "churn", uri, ts)
    \/ \E p \in Procs : register_steps(p)
    \/ \E n \in 1..MaxVersion, a \in Aliases :
            RegIdleAll /\ set_model_version_alias("churn", n, a)

SpecRegister == Init /\ [][NextRegister]_vars

---------------------------------------------------------------------------
(* One caller of promote_model, with versions deleted at any moment, also   *)
(* between two registry calls of the promote_model call                     *)

NextDelete ==
    \/ \E uri \in RegisterUris : AllIdle /\ register_model("churn", uri)
    \/ \E n \in 1..MaxVersion, a \in Aliases :
            AllIdle /\ set_model_version_alias("churn", n, a)
    \/ \E v \in VersionArgs, ri \in BOOLEAN :
            AllIdle /\ Call("p1", "churn", v, "staging", "champion", ri)
    \/ promote_model("p1")
    \/ \E n \in 1..MaxVersion : delete_model_version("churn", n)

SpecDelete == Init /\ [][NextDelete]_vars

---------------------------------------------------------------------------
(* Candidate resolution over drawn registries: version numbers up to        *)
(* MaxVerNum, at most one version in each stage (every version is then the  *)
(* latest of its stage); the oldest version holds champion                  *)

DrawnVersion(n, st) ==
    ModelVersion(n, RunUri(IF n % 2 = 0 THEN "r2" ELSE "r1"),
                 IF n % 2 = 0 THEN "r2" ELSE "r1", st)

DrawnRegistries ==
    {{DrawnVersion(f[st], st) : st \in {s \in Stages : f[s] # 0}} :
        f \in {g \in [Stages -> 0..MaxVerNum] :
                \A s, t \in Stages : (s # t /\ g[s] # 0) => g[s] # g[t]}}

Minimum(S) == IF S = {} THEN 0 ELSE CHOOSE x \in S : \A y \in S : x <= y

InitLatest ==
    /\ registered = {"churn"}
    /\ \E vs \in DrawnRegistries :
          /\ versions = [m \in Models |-> IF m = "churn" THEN vs ELSE {}]
          /\ alias = [m \in Models |-> [a \in Aliases |->
                        IF m = "churn" /\ a = "champion"
                           THEN Minimum({v.version : v \in vs}) ELSE NoVersion]]
    /\ runs = EvalFixture
    /\ inv = [p \in Procs |-> Idle]
    /\ pre = [p \in Procs |-> NoPre]
    /\ last = NoLast
    /\ query = NoRun
    /\ resolved = Outcome("none", 0, 0)
    /\ reg = [p \in Procs |-> RegIdle]
    /\ tags = {}

NextLatest ==
    \/ \E ri \in BOOLEAN :
            AllIdle /\ Call("p1", "churn", NoArg, "staging", "champion", ri)
    \/ promote_model("p1")

SpecLatest == InitLatest /\ [][NextLatest]_vars

---------------------------------------------------------------------------
(* The metric resolver on drawn run tables *)

DrawnRuns ==
    {EvalRun(src, st, t, ms) :
        src \in {"r1", "r2"}, st \in Statuses, t \in 1..MaxTime,
        ms \in {NoMetrics, Metrics(80), Metrics(83)}}

DrawnTables == UNION {[1..k -> DrawnRuns] : k \in 0..MaxRuns}

InitResolve ==
    /\ registered = {}
    /\ versions = [m \in Models |-> {}]
    /\ alias = [m \in Models |-> [a \in Aliases |-> NoVersion]]
    /\ runs \in DrawnTables
    /\ inv = [p \in Procs |-> Idle]
    /\ pre = [p \in Procs |-> NoPre]
    /\ last = NoLast
    /\ query \in {"r1", "r2", NoRun}
    /\ resolved = Outcome("none", 0, 0)
    /\ reg = [p \in Procs |-> RegIdle]
    /\ tags = {}

(* A call of retrieve_eval_metrics_based_on_run_id(query, "f1_score") *)
RetrieveCall ==
    /\ resolved.kind = "none"
    /\ resolved' \in retrieve_eval_metrics_based_on_run_id(runs, query, MetricName)
    /\ UNCHANGED <<registered, versions, alias, runs, inv, pre, last, query, reg, tags>>

NextResolve == RetrieveCall

SpecResolve == InitResolve /\ [][NextResolve]_vars

---------------------------------------------------------------------------
(* Two callers at once: both calls have been made on the same registry and  *)
(* their registry calls interleave, none of them failing in transport.      *)
(* churn has versions 1 (run r1, 0.80) and 2 (run r2, 0.83); fraud is       *)
(* registered with no version or with one.                                  *)

ConcVersions ==
    {[m \in Models |->
        IF m = "churn"
           THEN {ModelVersion(1, RunUri("r1"), "r1", "None"),
                 ModelVersion(2, RunUri("r2"), "r2", "None")}
           ELSE fv] :
        fv \in {{}, {ModelVersion(1, RunUri("r2"), "r2", "None")}}}

ConcAliases(vs) ==
    {al \in [Models -> [Aliases -> 0..2]] :
        /\ \A m \in Models, a \in Aliases :
              al[m][a] \in {NoVersion} \cup {v.version : v \in vs[m]}
        /\ al["fraud"]["staging"] = NoVersion}

ConcArgs(m) ==
    {Args(m, v, f, t, ri) :
        v \in {NoArg, VersionStr(1), VersionStr(2)},
        f \in Aliases, t \in Aliases, ri \in BOOLEAN}

Called(a) == [Idle EXCEPT !.pc = "L313", !.args = a, !.version = a.version]

InitConc ==
    /\ registered = Models
    /\ versions \in ConcVersions
    /\ alias \in ConcAliases(versions)
    /\ runs = EvalFixture
    /\ \E a1 \in ConcArgs("churn"),
          a2 \in ConcArgs("churn") \cup
                 {a \in ConcArgs("fraud") :
                      a.from_alias = "staging" /\ a.to_alias = "champion"} :
          inv = [p \in Procs |-> IF p = "p1" THEN Called(a1) ELSE Called(a2)]
    /\ pre = [p \in Procs |-> Snapshot]
    /\ last = NoLast
    /\ query = NoRun
    /\ resolved = Outcome("none", 0, 0)
    /\ reg = [p \in Procs |-> RegIdle]
    /\ tags = {}

NextConc == \E p \in Procs : promote_model(p)

SpecConc == InitConc /\ [][NextConc]_vars

(* promote_model of model-system, run alone and without a failing registry *)
(* call, from the aliases al: the lookup of to_alias and the two deletions  *)
(* in one try whose exception is logged, then the assignment outside it;    *)
(* there is no lookup of the version and nothing is returned                *)
SystemPromote(al, a) ==
    LET m == a.model_name
        n == int(a.version)
        e == al[m][a.to_alias]
        cleared == IF Exists(m, e)
                      THEN [al EXCEPT ![m][a.to_alias] = NoVersion,
                                      ![m][a.from_alias] = NoVersion]
                      ELSE al
    IN
    IF Exists(m, n)
       THEN [ret |-> "None", alias |-> [cleared EXCEPT ![m][a.to_alias] = n]]
       ELSE [ret |-> "raised", alias |-> cleared]

(* One caller on the same registries, with any arguments on either model   *)
(* and with registry calls that fail in transport                           *)

InitFrame ==
    /\ registered = Models
    /\ versions \in ConcVersions
    /\ alias \in ConcAliases(versions)
    /\ runs = EvalFixture
    /\ inv = [p \in Procs |-> Idle]
    /\ pre = [p \in Procs |-> NoPre]
    /\ last = NoLast
    /\ query = NoRun
    /\ resolved = Outcome("none", 0, 0)
    /\ reg = [p \in Procs |-> RegIdle]
    /\ tags = {}

NextFrame ==
    \/ \E m \in Models : \E a \in ConcArgs(m) :
            Call("p1", m, a.version, a.from_alias, a.to_alias, a.require_improvement)
    \/ promote_model("p1")

SpecFrame == InitFrame /\ [][NextFrame]_vars

(* promote_model run alone and without a failing registry call, from the    *)
(* aliases al: what it returns and the aliases it leaves                    *)
SeqPromote(al, a) ==
    LET m == a.model_name
        n == IF a.version = NoArg
                THEN MaxVersionOf(get_latest_versions(m)).version
                ELSE int(a.version)
        e == al[m][a.to_alias]
        unchanged(r) == [ret |-> r, alias |-> al]
        assigned == [ret |-> "True", alias |-> [al EXCEPT ![m][a.to_alias] = n]]
        swapped  == [ret |-> "True",
                     alias |-> [al EXCEPT ![m][a.to_alias] = NoVersion,
                                          ![m][a.from_alias] = NoVersion,
                                          ![m][a.to_alias] = n]]
    IN
    IF m \notin registered THEN {unchanged("raised")}
    ELSE IF a.version = NoArg /\ get_latest_versions(m) = {} THEN {unchanged("False")}
    ELSE IF ~Exists(m, n) THEN {unchanged("raised")}
    ELSE IF ~Exists(m, e) THEN {assigned}
    ELSE IF ~a.require_improvement THEN {swapped}
    ELSE {IF c.kind # "ok" \/ x.kind # "ok" THEN assigned
          ELSE IF Regression(c.value, x.value) THEN unchanged("False")
          ELSE IF x.value = 0 THEN assigned
          ELSE swapped :
            c \in retrieve_eval_metrics_based_on_run_id(runs, TheVersion(m, n).run_id, MetricName),
            x \in retrieve_eval_metrics_based_on_run_id(runs, TheVersion(m, e).run_id, MetricName)}

---------------------------------------------------------------------------
(* What a finished call is compared with: the registry when it was made *)

Finished(p)  == inv[p].pc = "done"
NoFailure(p) == inv[p].fails = 0
ModelOf(p)   == inv[p].args.model_name
ToAlias(p)   == inv[p].args.to_alias
FromAlias(p) == inv[p].args.from_alias
Guarded(p)   == inv[p].args.require_improvement
Omitted(p)   == inv[p].args.version = NoArg

NumbersBefore(p) == {v.version : v \in Live(pre[p].versions[ModelOf(p)])}

CandidateNumber(p) ==
    IF Omitted(p) THEN Maximum(NumbersBefore(p)) ELSE int(inv[p].args.version)

CandidateExisted(p) ==
    ModelOf(p) \in pre[p].registered /\ CandidateNumber(p) \in NumbersBefore(p)

HolderBefore(p) == pre[p].alias[ModelOf(p)][ToAlias(p)]

HadHolder(p) == HolderBefore(p) \in NumbersBefore(p)

MetricBefore(p, n) ==
    retrieve_eval_metrics_based_on_run_id(runs,
             (CHOOSE v \in pre[p].versions[ModelOf(p)] : v.version = n).run_id,
             MetricName)

Resolvable(p, n)   == \A o \in MetricBefore(p, n) : o.kind = "ok"
Unresolvable(p, n) == \A o \in MetricBefore(p, n) : o.kind # "ok"

RegistryUnchanged(p) == Snapshot = pre[p]

Promoted(p) == inv[p].ret = "True"
Blocked(p)  == inv[p].ret = "False" /\ inv[p].exit = "L377"

(* Both metrics resolve at a guarded call on an assigned alias *)
Compared(p) ==
    /\ Finished(p) /\ NoFailure(p) /\ Guarded(p)
    /\ HadHolder(p) /\ CandidateExisted(p)
    /\ Resolvable(p, CandidateNumber(p))
    /\ Resolvable(p, HolderBefore(p))

NotBetter(p) ==
    \A c \in MetricBefore(p, CandidateNumber(p)), e \in MetricBefore(p, HolderBefore(p)) :
        c.value <= e.value

Better(p) ==
    \A c \in MetricBefore(p, CandidateNumber(p)), e \in MetricBefore(p, HolderBefore(p)) :
        c.value > e.value

---------------------------------------------------------------------------
(* C1: a guarded promote_model call whose candidate does not score above   *)
(* the holder of to_alias (both metrics resolve, candidate_metric <=        *)
(* existing_metric) returns False from the "Promotion blocked" branch, and  *)
(* the registered models, the versions and every alias are what they were   *)
(* when the call was made.                                                  *)
C1_BlockedLeavesRegistry ==
    \A p \in Procs :
        (Compared(p) /\ NotBetter(p)) => (Blocked(p) /\ RegistryUnchanged(p))

C1_Witness ==
    \E p \in Procs :
        /\ Compared(p) /\ NotBetter(p) /\ Blocked(p)
        /\ CandidateNumber(p) # HolderBefore(p)
        /\ pre[p].alias[ModelOf(p)][FromAlias(p)] # NoVersion

(* C2: a guarded promote_model call on an assigned to_alias whose           *)
(* candidate's metric cannot be resolved does not promote: it does not      *)
(* return True, and to_alias still resolves to the previous holder.         *)
C2_MissingCandidateMetricAborts ==
    \A p \in Procs :
        ( /\ Finished(p) /\ NoFailure(p) /\ Guarded(p)
          /\ HadHolder(p) /\ CandidateExisted(p)
          /\ Unresolvable(p, CandidateNumber(p)) )
        => ( /\ ~Promoted(p)
             /\ alias[ModelOf(p)][ToAlias(p)] = HolderBefore(p) )

(* C3: however a promote_model call ends, with or without a failing        *)
(* registry call, the aliases are what they were when the call was made or  *)
(* to_alias resolves to the candidate version.                              *)
C3_UnchangedOrCandidate ==
    \A p \in Procs :
        Finished(p) =>
            \/ alias = pre[p].alias
            \/ alias[ModelOf(p)][ToAlias(p)] = CandidateNumber(p)

(* C4: a promote_model call on an unassigned to_alias with an existing     *)
(* candidate returns True with to_alias on the candidate, whatever          *)
(* require_improvement is and whatever evaluation runs exist, and without   *)
(* a call of the metric resolver.                                           *)
C4_NoHolderPromotes ==
    \A p \in Procs :
        ( /\ Finished(p) /\ NoFailure(p)
          /\ HolderBefore(p) = NoVersion /\ CandidateExisted(p) )
        => ( /\ Promoted(p)
             /\ alias[ModelOf(p)][ToAlias(p)] = CandidateNumber(p)
             /\ inv[p].metric_calls = 0 )

C4_Witness ==
    \E p \in Procs :
        /\ Finished(p) /\ NoFailure(p) /\ Guarded(p)
        /\ HolderBefore(p) = NoVersion /\ CandidateExisted(p)
        /\ Unresolvable(p, CandidateNumber(p))
        /\ Promoted(p)

(* C5: a promote_model call that repeats the call before it, with the same *)
(* arguments and nothing in between, leaves every alias and every version   *)
(* as the first call left them.                                             *)
C5_RepeatChangesNothing ==
    \A p \in Procs :
        (Finished(p) /\ NoFailure(p) /\ inv[p].repeat)
        => (alias = pre[p].alias /\ versions = pre[p].versions)

(* C6: a guarded promote_model call whose candidate scores strictly above  *)
(* the holder of to_alias returns True with to_alias on the candidate, and  *)
(* reports the improvement candidate_metric - existing_metric.              *)
C6_ImprovementPromotesAndReports ==
    \A p \in Procs :
        (Compared(p) /\ Better(p))
        => ( /\ Promoted(p)
             /\ alias[ModelOf(p)][ToAlias(p)] = CandidateNumber(p)
             /\ inv[p].reported # <<>>
             /\ inv[p].reported[1] = inv[p].candidate_metric - inv[p].existing_metric )

(* C7: with the version argument omitted, promote_model goes on with the   *)
(* version of the largest number among those get_latest_versions returns:   *)
(* "10" is above "9" and "2".                                               *)
C7_LatestByNumber ==
    \A p \in Procs :
        (Omitted(p) /\ inv[p].version # NoArg)
        => ( /\ int(inv[p].version) \in NumbersBefore(p)
             /\ \A n \in NumbersBefore(p) : n <= int(inv[p].version) )

C7_Witness ==
    \E p \in Procs :
        /\ Omitted(p)
        /\ NumbersBefore(p) = {2, 9, 10}
        /\ inv[p].version = <<1, 0>>

(* C8: with the version argument omitted and a registered model without    *)
(* versions, promote_model returns False from the "No versions found"       *)
(* branch, has issued no alias deletion or assignment, and the registry is  *)
(* what it was.                                                             *)
C8_NoVersionsAborts ==
    \A p \in Procs :
        ( /\ Finished(p) /\ NoFailure(p) /\ Omitted(p)
          /\ ModelOf(p) \in pre[p].registered /\ NumbersBefore(p) = {} )
        => ( /\ inv[p].ret = "False" /\ inv[p].exit = "L318"
             /\ inv[p].alias_writes = 0
             /\ RegistryUnchanged(p) )

C8_Witness ==
    \E p \in Procs :
        /\ Finished(p) /\ NoFailure(p) /\ Omitted(p)
        /\ ModelOf(p) \in pre[p].registered /\ NumbersBefore(p) = {}
        /\ inv[p].ret = "False"

---------------------------------------------------------------------------
(* The run a resolver call selected *)

Selected == runs[resolved.row]

Correlated(i) == runs[i].source_run_id = Fmt(query)

(* C9: the run retrieve_eval_metrics_based_on_run_id reads the metric from *)
(* is tagged with the queried run id, is FINISHED, and no FINISHED run with *)
(* that tag ended later; the value returned is that run's metric.           *)
C9_LatestFinishedRun ==
    resolved.row # 0 =>
        /\ Selected.source_run_id = Fmt(query)
        /\ Selected.status = "FINISHED"
        /\ \A j \in 1..Len(runs) :
              (Correlated(j) /\ runs[j].status = "FINISHED")
              => runs[j].end_time <= Selected.end_time
        /\ resolved.kind = "ok" => resolved.value = Selected.metrics[MetricName]

C9_Witness ==
    /\ resolved.kind = "ok"
    /\ \E j \in 1..Len(runs) :
          /\ Correlated(j)
          /\ runs[j].status # "FINISHED"
          /\ runs[j].end_time > Selected.end_time
          /\ MetricName \in DOMAIN runs[j].metrics
          /\ runs[j].metrics[MetricName] # resolved.value

(* C10: retrieve_eval_metrics_based_on_run_id raises when no FINISHED run  *)
(* is tagged with the queried run id, and raises when the latest such run   *)
(* has no value of the metric, also when an older one has.                  *)
C10_MetricNotFound ==
    LET finished == {j \in 1..Len(runs) : Correlated(j) /\ runs[j].status = "FINISHED"}
        latest   == {j \in finished : \A k \in finished : runs[k].end_time <= runs[j].end_time}
    IN
    resolved.kind # "none" =>
        /\ finished = {} => resolved.kind \in {"IndexError", "KeyError"}
        /\ (finished # {} /\ \A j \in latest : MetricName \notin DOMAIN runs[j].metrics)
              => resolved.kind = "KeyError"

C10_Witness ==
    /\ resolved.kind = "KeyError"
    /\ resolved.row # 0
    /\ \E j \in 1..Len(runs) :
          /\ Correlated(j)
          /\ runs[j].status = "FINISHED"
          /\ runs[j].end_time < Selected.end_time
          /\ MetricName \in DOMAIN runs[j].metrics

---------------------------------------------------------------------------
(* C11: a guarded promote_model call whose candidate's metric resolves     *)
(* while the metric of the holder of to_alias does not goes on: it returns  *)
(* True and to_alias resolves to the candidate.                             *)
C11_MissingHolderMetricProceeds ==
    \A p \in Procs :
        ( /\ Finished(p) /\ NoFailure(p) /\ Guarded(p)
          /\ HadHolder(p) /\ CandidateExisted(p)
          /\ Resolvable(p, CandidateNumber(p))
          /\ Unresolvable(p, HolderBefore(p)) )
        => ( /\ Promoted(p)
             /\ alias[ModelOf(p)][ToAlias(p)] = CandidateNumber(p) )

C11_Witness ==
    \E p \in Procs :
        /\ Finished(p) /\ NoFailure(p) /\ Guarded(p)
        /\ HadHolder(p) /\ CandidateExisted(p)
        /\ Resolvable(p, CandidateNumber(p))
        /\ Unresolvable(p, HolderBefore(p))
        /\ CandidateNumber(p) # HolderBefore(p)
        /\ Promoted(p)

(* C12: a promote_model call that returns True has done the whole swap:    *)
(* to_alias resolves to the candidate and from_alias, when it is another    *)
(* alias, is unassigned.                                                    *)
C12_PromotedMeansSwapped ==
    \A p \in Procs :
        (Finished(p) /\ NoFailure(p) /\ Promoted(p))
        => ( /\ alias[ModelOf(p)][ToAlias(p)] = CandidateNumber(p)
             /\ FromAlias(p) # ToAlias(p)
                   => alias[ModelOf(p)][FromAlias(p)] = NoVersion )

(* C13: a promote_model call in which a registry call failed with a        *)
(* transport error ends by raising that error; it does not go on to assign  *)
(* to_alias and return.                                                     *)
C13_TransportErrorSurfaces ==
    \A p \in Procs :
        (Finished(p) /\ ~NoFailure(p)) => inv[p].ret = "raised"

---------------------------------------------------------------------------
(* Two calls at once *)

(* What the caller of a finished call has been told, by the exit taken *)
OutcomeOf(p) ==
    IF inv[p].exit = "L413" THEN "Promoted"
    ELSE IF inv[p].exit = "L377" THEN "Blocked"
    ELSE "Aborted"

BothFinished == \A p \in Procs : Finished(p)

(* C14: what promote_model hands to its caller tells Promoted, Blocked and *)
(* Aborted apart: two finished calls that ended in different outcomes, one  *)
(* blocked by the regression guard and one aborted for want of versions,    *)
(* have not handed their callers the same thing.                            *)
C14_OutcomesDistinguishable ==
    \A p, q \in Procs :
        (Finished(p) /\ Finished(q) /\ inv[p].ret = inv[q].ret)
        => OutcomeOf(p) = OutcomeOf(q)

(* C15: when two promote_model calls on the same model and to_alias, none  *)
(* of whose registry calls failed, have both finished, to_alias resolves to *)
(* the candidate of the call whose alias assignment was executed last, also *)
(* when the other call returned True.                                       *)
C15_LastWriterWins ==
    \A p, q \in Procs :
        ( /\ p # q /\ Finished(p) /\ Finished(q)
          /\ NoFailure(p) /\ NoFailure(q)
          /\ SameTarget(inv[p], inv[q])
          /\ inv[p].wrote_last )
        => alias[ModelOf(p)][ToAlias(p)] = int(inv[p].version)

C15_Witness ==
    \E p, q \in Procs :
        /\ p # q /\ Finished(p) /\ Finished(q)
        /\ SameTarget(inv[p], inv[q])
        /\ inv[p].wrote_last
        /\ Promoted(p) /\ Promoted(q)
        /\ int(inv[p].version) # int(inv[q].version)
        /\ alias[ModelOf(p)][ToAlias(p)] = int(inv[p].version)

(* The two calls and the aliases they leave, and the same for the calls run *)
(* one after the other from the aliases they were made on                   *)
ConcResult ==
    [r1 |-> inv["p1"].ret, r2 |-> inv["p2"].ret, alias |-> alias]

FirstThenSecond ==
    {[r1 |-> x.ret, r2 |-> y.ret, alias |-> y.alias] :
        x \in SeqPromote(pre["p1"].alias, inv["p1"].args),
        y \in UNION {SeqPromote(z.alias, inv["p2"].args) :
                        z \in SeqPromote(pre["p1"].alias, inv["p1"].args)}}

SecondThenFirst ==
    {[r1 |-> x.ret, r2 |-> y.ret, alias |-> x.alias] :
        y \in SeqPromote(pre["p2"].alias, inv["p2"].args),
        x \in UNION {SeqPromote(z.alias, inv["p1"].args) :
                        z \in SeqPromote(pre["p2"].alias, inv["p2"].args)}}

DifferentModels == ModelOf("p1") # ModelOf("p2")

DifferentPairs ==
    <<FromAlias("p1"), ToAlias("p1")>> # <<FromAlias("p2"), ToAlias("p2")>>

NoCommonAlias ==
    {FromAlias("p1"), ToAlias("p1")} \cap {FromAlias("p2"), ToAlias("p2")} = {}

(* C16 as stated: two promote_model calls on different models, or on the   *)
(* same model with different (from_alias, to_alias) pairs, end under every  *)
(* interleaving with the results and the aliases of the two calls run one   *)
(* after the other, in one order or the other.                              *)
C16_DifferentPairsIndependent ==
    (BothFinished /\ (DifferentModels \/ DifferentPairs))
    => ConcResult \in FirstThenSecond \cup SecondThenFirst

(* C16, amended: two promote_model calls on different models, or on the    *)
(* same model with no alias in common between their (from_alias, to_alias)  *)
(* pairs, end under every interleaving with the results and the aliases of  *)
(* the two calls run one after the other, in both orders.                   *)
C16_DisjointAliasesIndependent ==
    (BothFinished /\ (DifferentModels \/ NoCommonAlias))
    => (ConcResult \in FirstThenSecond /\ ConcResult \in SecondThenFirst)

C16_Witness ==
    /\ BothFinished
    /\ ~DifferentModels /\ NoCommonAlias
    /\ Promoted("p1") /\ Promoted("p2")
    /\ alias # pre["p1"].alias
    /\ ConcResult \in FirstThenSecond

---------------------------------------------------------------------------
---------------------------------------------------------------------------
(* register_model *)

RegFinished(p) == reg[p].pc = "done"

(* The step of invocation p in which the registry created its version *)
Created(p) == reg[p].pc = "L67" /\ reg'[p].version # NoVersion

(* C19: the creation of a version by register_model adds exactly one       *)
(* version to the named model, numbered above every version of the model,   *)
(* also when a version of the same source exists; the versions there were,  *)
(* the versions of the other models and all aliases stay as they were.      *)
C19_RegisterAddsOneVersion ==
    [][\A p \in Procs :
          Created(p) =>
            LET m == reg[p].model_name
                new == versions'[m] \ versions[m]
            IN
            /\ Cardinality(new) = 1
            /\ versions[m] \subseteq versions'[m]
            /\ \A v \in new :
                  /\ v.version = reg'[p].version
                  /\ v.source = reg[p].model_uri
                  /\ \A w \in versions[m] : w.version < v.version
            /\ \A o \in Models \ {m} : versions'[o] = versions[o]
            /\ alias' = alias]_vars

C19_Witness ==
    \E p \in Procs :
        /\ RegFinished(p) /\ reg[p].ret = "version" /\ reg[p].version = 2
        /\ \E v, w \in versions[reg[p].model_name] :
              /\ v.version = 1 /\ w.version = 2
              /\ v.source = w.source /\ w.source = reg[p].model_uri
        /\ alias[reg[p].model_name]["champion"] = 1

(* C20: a register_model call none of whose registry calls failed in       *)
(* transport hands its caller the version it created, whatever another      *)
(* register_model call on the same model does in between: the creation of   *)
(* a model that exists by then is not propagated.                           *)
C20_RegisterIdempotentOnModel ==
    \A p \in Procs :
        (RegFinished(p) /\ reg[p].fails = 0) => reg[p].ret = "version"

(* C21: a register_model call that created its version hands it to the     *)
(* caller and has attempted every tag it was given, also when attaching a   *)
(* tag failed.                                                              *)
C21_TagFailureNotFatal ==
    \A p \in Procs :
        (RegFinished(p) /\ reg[p].version # NoVersion)
        => ( /\ reg[p].ret = "version"
             /\ reg[p].next_tag = Len(reg[p].tags) + 1 )

(* C22: the value retrieve_eval_metrics_based_on_run_id returned is the    *)
(* only one it can return for these runs: FINISHED runs of the queried run  *)
(* id that share the largest end_time do not make the outcome depend on     *)
(* which of them the sort puts first.                                       *)
C22_ResolverDeterministic ==
    resolved.kind # "none" =>
        \A o \in retrieve_eval_metrics_based_on_run_id(runs, query, MetricName) :
            o.kind = resolved.kind /\ o.value = resolved.value

---------------------------------------------------------------------------
(* C23: promote_model resolves metrics only at a guarded call on an        *)
(* assigned to_alias: an unguarded call on an assigned to_alias resolves no *)
(* metric and returns True with to_alias on the candidate, also when the    *)
(* candidate scores below the holder or has no metric.                      *)
C23_GuardOnlyWhenRequired ==
    \A p \in Procs :
        /\ inv[p].metric_calls > 0 => (Guarded(p) /\ HadHolder(p))
        /\ ( /\ Finished(p) /\ NoFailure(p) /\ ~Guarded(p)
              /\ HadHolder(p) /\ CandidateExisted(p) )
           => ( /\ Promoted(p)
                /\ alias[ModelOf(p)][ToAlias(p)] = CandidateNumber(p)
                /\ inv[p].metric_calls = 0 )

C23_Witness ==
    \E p \in Procs :
        /\ Finished(p) /\ NoFailure(p) /\ ~Guarded(p)
        /\ HadHolder(p) /\ CandidateExisted(p)
        /\ Resolvable(p, CandidateNumber(p)) /\ Resolvable(p, HolderBefore(p))
        /\ \A c \in MetricBefore(p, CandidateNumber(p)),
              e \in MetricBefore(p, HolderBefore(p)) : c.value < e.value
        /\ Promoted(p)
        /\ alias[ModelOf(p)][ToAlias(p)] = CandidateNumber(p)

(* C24: a guarded promote_model call whose candidate scores strictly above *)
(* the holder of to_alias, a holder that scores 0 included, does the whole  *)
(* swap: it deletes to_alias, deletes from_alias, assigns to_alias to the   *)
(* candidate and returns True.                                              *)
C24_ReportNeverAltersSwap ==
    \A p \in Procs :
        (Compared(p) /\ Better(p))
        => ( /\ Promoted(p)
             /\ inv[p].alias_writes = 3
             /\ alias[ModelOf(p)][ToAlias(p)] = CandidateNumber(p)
             /\ FromAlias(p) # ToAlias(p)
                   => alias[ModelOf(p)][FromAlias(p)] = NoVersion )

(* C25: a guarded promote_model call, none of whose registry calls failed  *)
(* in transport, on an assigned to_alias with both metrics resolvable moves *)
(* to_alias only to the candidate and only when the candidate scores        *)
(* strictly above the version it replaces; so does every such call of a     *)
(* sequence.                                                                *)
C25_HolderMetricIncreases ==
    \A p \in Procs :
        (Compared(p) /\ alias[ModelOf(p)][ToAlias(p)] # HolderBefore(p))
        => ( /\ alias[ModelOf(p)][ToAlias(p)] = CandidateNumber(p)
             /\ Better(p) )

C25_Witness ==
    \E p \in Procs :
        /\ Compared(p) /\ Better(p)
        /\ inv[p].repeat = FALSE
        /\ Len(inv[p].reported) = 2
        /\ HolderBefore(p) # CandidateNumber(p)
        /\ alias[ModelOf(p)][ToAlias(p)] = CandidateNumber(p)

---------------------------------------------------------------------------
(* C26: from its call to its end, however it ends, a promote_model call    *)
(* leaves the registered models, the versions, the aliases of the other     *)
(* models and the aliases of its model other than from_alias and to_alias   *)
(* as they were when it was made.                                           *)
C26_OnlyTheTwoAliases ==
    \A p \in Procs :
        inv[p].pc # "idle" =>
            /\ registered = pre[p].registered
            /\ versions = pre[p].versions
            /\ \A m \in Models, a \in Aliases :
                  (m # ModelOf(p) \/ a \notin {FromAlias(p), ToAlias(p)})
                  => alias[m][a] = pre[p].alias[m][a]

C26_Witness ==
    \E p \in Procs :
        /\ Finished(p) /\ Promoted(p)
        /\ FromAlias(p) = ToAlias(p)
        /\ inv[p].alias_writes = 3
        /\ alias # pre[p].alias
        /\ \E a \in Aliases : a # ToAlias(p) /\ alias[ModelOf(p)][a] # NoVersion
        /\ \E m \in Models, a \in Aliases : m # ModelOf(p) /\ alias[m][a] # NoVersion

(* C27: promote_model looks the candidate up before it reads, deletes or   *)
(* assigns an alias: a call with an explicit version that is not a version  *)
(* of the model ends with the exception of the lookup of line 329, has      *)
(* issued no alias deletion or assignment, and every alias is what it was.  *)
C27_LookupBeforeAliases ==
    \A p \in Procs :
        /\ inv[p].pc \in {"L313", "L329"}
              => (inv[p].alias_writes = 0 /\ inv[p].existing = NoVersion)
        /\ (Finished(p) /\ ~Omitted(p) /\ ~CandidateExisted(p))
              => ( /\ inv[p].ret = "raised" /\ inv[p].exit = "L329"
                   /\ inv[p].alias_writes = 0
                   /\ alias = pre[p].alias )

C27_Witness ==
    \E p \in Procs :
        /\ Finished(p) /\ ~Omitted(p) /\ ~CandidateExisted(p)
        /\ NumbersBefore(p) # {}
        /\ pre[p].alias[ModelOf(p)][ToAlias(p)] # NoVersion
        /\ pre[p].alias[ModelOf(p)][FromAlias(p)] # NoVersion
        /\ inv[p].ret = "raised"

---------------------------------------------------------------------------
(* C28: an unguarded promote_model call of model_pipeline with an explicit *)
(* version, none of whose registry calls failed in transport, leaves the    *)
(* aliases that promote_model of model-system leaves from the same          *)
(* registry, whether or not to_alias had a holder, from_alias was assigned  *)
(* or the version exists.                                                   *)
C28_VariantsAgree ==
    \A p \in Procs :
        (Finished(p) /\ NoFailure(p) /\ ~Guarded(p) /\ ~Omitted(p))
        => alias = SystemPromote(pre[p].alias, inv[p].args).alias

====
